---- MODULE Spec2Model ----
(***************************************************************************)
(* Model of github.com/enceve/crypto:                                      *)
(*   chacha20/chacha/chacha_amd64.go  one-shot XORKeyStream, NewCipher and *)
(*                                    the resumable Cipher.XORKeyStream    *)
(*   cipher/eax.go                    the EAX AEAD (NewEAX, Seal, Open,    *)
(*                                    ctrCrypt)                            *)
(* Buffers are sequences of bytes (0..255).  A Go slice expression         *)
(* s[a:b] is SubSeq(s, a+1, b).                                            *)
(***************************************************************************)
EXTENDS Integers, Sequences, FiniteSets, TLC

\* ------------------------------------------------------------------ bounds
\* Width of the two's-complement words the masks are computed in.  Go's int
\* has 64 bits; every operand of the model is far below 2^(MaskBits-1), and
\* x & ^y of such operands is the same in every width above that.
MaskBits == 16
\* Calls of Cipher.XORKeyStream per run.
MaxCalls == 3

\* ------------------------------------------------------------------- bytes
Byte == 0..255

Min(a, b) == IF a < b THEN a ELSE b
CeilDiv(n, d) == (n + d - 1) \div d

RECURSIVE Pow2(_)
Pow2(n) == IF n = 0 THEN 1 ELSE 2 * Pow2(n - 1)

\* x as an unsigned MaskBits-bit word (two's complement of a negative x).
ToWord(x) == x % Pow2(MaskBits)

RECURSIVE BitAndNat(_, _)
BitAndNat(x, y) ==
  IF x = 0 \/ y = 0 THEN 0
  ELSE (x % 2) * (y % 2) + 2 * BitAndNat(x \div 2, y \div 2)

RECURSIVE BitXorNat(_, _)
BitXorNat(x, y) ==
  IF x = 0 THEN y
  ELSE IF y = 0 THEN x
  ELSE ((x + y) % 2) + 2 * BitXorNat(x \div 2, y \div 2)

\* Go's  x & y  and  ^x  on ints.
BitAnd(x, y) == BitAndNat(ToWord(x), ToWord(y))
BitNot(x) == Pow2(MaskBits) - 1 - ToWord(x)

XorTable == [a \in Byte |-> [b \in Byte |-> BitXorNat(a, b)]]
XorByte(a, b) == XorTable[a][b]

\* s[a:] and s[:b] of Go.
From(s, a) == SubSeq(s, a + 1, Len(s))
Upto(s, b) == SubSeq(s, 1, b)

\* A function on 1..n as a sequence value (TLC then holds its elements
\* instead of the expression that computes them).
AsSeq(f) == f \o <<>>

\* crypto.XOR(dst, src, with): dst[i] = src[i] ^ with[i] for the first
\* min(len(src), len(with)) bytes; returns that count.
XORCount(src, with) == Min(Len(src), Len(with))
XORFirst(dst, src, with, n) ==
  AsSeq([i \in 1..Len(dst) |->
           IF i <= n THEN XorByte(src[i], with[i]) ELSE dst[i]])
XOR(dst, src, with) == XORFirst(dst, src, with, XORCount(src, with))

\* ------------------------------------------------------------------ ChaCha
\* The keystream block size: the 64 of chacha_amd64.go.
BlockLen == 64

\* "expand 32-byte k", the constants copied to state[0:16].
constants ==
  <<101, 120, 112, 97, 110, 100, 32, 51, 50, 45, 98, 121, 116, 101, 32, 107>>

\* The 64-byte state: constants, the key, counter (4 bytes, little endian),
\* the 12 nonce bytes (statePtr[6] = nonce[0:8] << 32 | counter keeps
\* nonce[0:4] above the counter, statePtr[7] = nonce[4:12]).
InitState(nonce, key, counter) == constants \o key \o counter \o nonce

CounterOf(state) == SubSeq(state, 49, 52)

\* A little-endian 32-bit word plus one, mod 2^32.
RECURSIVE IncLE(_)
IncLE(w) ==
  IF w = <<>> THEN <<>>
  ELSE IF w[1] = 255 THEN <<0>> \o IncLE(Tail(w))
  ELSE <<w[1] + 1>> \o Tail(w)

IncCounter(state) ==
  SubSeq(state, 1, 48) \o IncLE(CounterOf(state)) \o SubSeq(state, 53, 64)

\* The round engine's output for a state: it stands for the ChaCha/rounds
\* permutation, of which the callers use only that it is a function of the
\* state (key, counter, nonce) and the round count.
RECURSIVE MixRange(_, _, _)
MixRange(s, lo, hi) ==
  IF lo > hi THEN 0
  ELSE IF lo = hi THEN ((s[lo] + 1) * (2 * lo + 1)) % 65521
  ELSE (MixRange(s, lo, (lo + hi) \div 2) * 33
        + MixRange(s, (lo + hi) \div 2 + 1, hi)) % 65521

Mix(h, s) == (h * 257 + MixRange(s, 1, Len(s)) + Len(s)) % 65521

KeyStreamBytes(h) ==
  AsSeq([j \in 1..BlockLen |-> ((h + j) * (2 * j + 1) + (h \div 256)) % 256])

KeyStreamBlock(state, rounds) == KeyStreamBytes(Mix(rounds, state))

\* Core(dst, state, rounds): one keystream block; increments the counter.
Core(state, rounds) ==
  [block |-> KeyStreamBlock(state, rounds), state |-> IncCounter(state)]

\* XORBlocks(dst, src, state, rounds): the len(src) - len(src) mod 64 bytes
\* of the full blocks, the counter incremented once per block; nothing when
\* len(src) > len(dst).
XORBlockAt(dst, src, ks, k) ==
  AsSeq([i \in 1..Len(dst) |->
           IF BlockLen * k < i /\ i <= BlockLen * (k + 1)
           THEN XorByte(src[i], ks[i - BlockLen * k]) ELSE dst[i]])

RECURSIVE XORBlocksFrom(_, _, _, _, _)
XORBlocksFrom(dst, src, state, rounds, k) ==
  IF BlockLen * (k + 1) > Len(src) THEN [dst |-> dst, state |-> state]
  ELSE XORBlocksFrom(XORBlockAt(dst, src, KeyStreamBlock(state, rounds), k),
                     src, IncCounter(state), rounds, k + 1)

XORBlocks(dst, src, state, rounds) ==
  IF Len(src) > Len(dst) THEN [dst |-> dst, state |-> state]
  ELSE XORBlocksFrom(dst, src, state, rounds, 0)

\* Mutant of BadRounds: only the parity is checked.
BadRoundsParityOnly(rounds) == rounds % 2 /= 0

\* rounds <= 0 || rounds%2 != 0
BadRounds(rounds) == rounds <= 0 \/ rounds % 2 /= 0

\* len(dst) < length, the check at the entry of the one-shot function.
OneShotDstTooSmall(dst, length) == Len(dst) < length

\* n := length & (^(64 - 1)) of the one-shot function.
OneShotFullLen(length) == BitAnd(length, BitNot(BlockLen - 1))

\* The one-shot function from "if length >= 64" on: b is dst and the state
\* after the full blocks, n the length of the full blocks.
OneShotFullBlocks(dst, src, state, rounds) ==
  IF Len(src) >= BlockLen THEN XORBlocks(dst, src, state, rounds)
  ELSE [dst |-> dst, state |-> state]

OneShotPartial(b, src, n, rounds) ==
  IF Len(src) - n > 0
  THEN [panic |-> "",
        dst |-> Upto(b.dst, n)
                \o XOR(From(b.dst, n), From(src, n), Core(b.state, rounds).block)]
  ELSE [panic |-> "", dst |-> b.dst]

\* The one-shot XORKeyStream(dst, src, nonce, key, counter, rounds).
OneShotXORKeyStream(dst, src, nonce, key, counter, rounds) ==
  IF OneShotDstTooSmall(dst, Len(src))
  THEN [panic |-> "dst buffer is to small", dst |-> dst]
  ELSE IF BadRounds(rounds)
  THEN [panic |-> "rounds must be a multiple of 2", dst |-> dst]
  ELSE OneShotPartial(
         OneShotFullBlocks(dst, src, InitState(nonce, key, counter), rounds),
         src, OneShotFullLen(Len(src)), rounds)

\* NewCipher(nonce, key, rounds): counter 0, no leftover block.
NewCipher(nonce, key, rounds) ==
  IF BadRounds(rounds)
  THEN [panic |-> "rounds must be a multiply of 2"]
  ELSE [panic |-> "",
        state |-> InitState(nonce, key, <<0, 0, 0, 0>>),
        block |-> [j \in 1..BlockLen |-> 0],
        off |-> 0,
        rounds |-> rounds]

\* len(dst) < length, the check at the entry of Cipher.XORKeyStream.
CipherDstTooSmall(dst, length) == Len(dst) < length

\* n := length & (^(64 - 1)) of Cipher.XORKeyStream.
CipherFullLen(length) == BitAnd(length, BitNot(BlockLen - 1))

\* Cipher.XORKeyStream from "if length >= 64" on, on the slices left after
\* the leftover bytes: b is dst and the state after the full blocks, n the
\* length of the full blocks, core the block generated for the rest.
CipherFullBlocks(c, dst, src) ==
  IF Len(src) >= BlockLen THEN XORBlocks(dst, src, c.state, c.rounds)
  ELSE [dst |-> dst, state |-> c.state]

CipherPartialWith(c, b, src, n, core) ==
  [dst |-> Upto(b.dst, n) \o XOR(From(b.dst, n), From(src, n), core.block),
   c |-> [c EXCEPT !.state = core.state, !.block = core.block,
                   !.off = c.off + XORCount(From(src, n), core.block)]]

\* Mutant of CipherPartial: a block is generated for an empty rest too.
CipherPartialAlways(c, b, src, n) ==
  CipherPartialWith(c, b, src, n, Core(b.state, c.rounds))

CipherPartial(c, b, src, n) ==
  IF Len(src) - n > 0
  THEN CipherPartialWith(c, b, src, n, Core(b.state, c.rounds))
  ELSE [dst |-> b.dst, c |-> [c EXCEPT !.state = b.state]]

CipherBlocks(c, dst, src) ==
  CipherPartial(c, CipherFullBlocks(c, dst, src), src, CipherFullLen(Len(src)))

\* Mutant of LeftoverReset: the offset is not reset.
LeftoverResetKept(off) == off

\* c.off = 0, once the leftover block is used up within a call.
LeftoverReset(off) == 0

\* Cipher.XORKeyStream with a leftover block (c.off > 0): n bytes are served
\* from it into d; the rest, if any, goes on with off reset.
CipherRest(n, d, r) == [panic |-> "", dst |-> Upto(d, n) \o r.dst, c |-> r.c]

\* Mutant of CipherLeftover: the offset is not advanced when the leftover
\* block serves the whole call.
CipherLeftoverOffKept(c, src, n, d) ==
  IF n = Len(src)
  THEN [panic |-> "", dst |-> d, c |-> c]
  ELSE CipherRest(n, d, CipherBlocks([c EXCEPT !.off = LeftoverReset(c.off)],
                                     From(d, n), From(src, n)))

CipherLeftover(c, src, n, d) ==
  IF n = Len(src)
  THEN [panic |-> "", dst |-> d, c |-> [c EXCEPT !.off = c.off + n]]
  ELSE CipherRest(n, d, CipherBlocks([c EXCEPT !.off = LeftoverReset(c.off)],
                                     From(d, n), From(src, n)))

CipherNoLeftover(r) == [panic |-> "", dst |-> r.dst, c |-> r.c]

\* Mutant of CipherPanicked: the length check comes after the leftover
\* bytes are served.
CipherPanickedLate(c, dst, src) ==
  [panic |-> "dst buffer is to small",
   dst |-> XOR(dst, src, From(c.block, c.off)),
   c |-> [c EXCEPT !.off = c.off + XORCount(dst, From(c.block, c.off))]]

\* The panic at the entry of Cipher.XORKeyStream: nothing was touched.
CipherPanicked(c, dst, src) ==
  [panic |-> "dst buffer is to small", dst |-> dst, c |-> c]

\* Cipher.XORKeyStream(dst, src).
CipherXORKeyStream(c, dst, src) ==
  IF CipherDstTooSmall(dst, Len(src))
  THEN CipherPanicked(c, dst, src)
  ELSE IF c.off > 0
  THEN CipherLeftover(c, src, XORCount(src, From(c.block, c.off)),
                      XOR(dst, src, From(c.block, c.off)))
  ELSE CipherNoLeftover(CipherBlocks(c, dst, src))

\* --------------------------------------------------------------------- EAX
nTag == 0
hTag == 1
\* Mutant of cTag: the ciphertext is authenticated under the tag of the
\* additional data.
cTagAsHTag == hTag
cTag == 2

\* The block sizes cmac.New accepts.
MacSupports(bs) == bs \in {8, 16, 32, 64, 128}

\* The MAC (cmac over the block cipher) of the bytes written since the last
\* Reset: Size() bytes.  It stands for OMAC1, of which EAX uses only that
\* it is a function of the bytes written.
MacBytes(h, size) ==
  AsSeq([j \in 1..size |-> ((h + 3 * j) * (2 * j + 5) + (h \div 128)) % 256])
MacSum(written, size) == MacBytes(Mix(size, written), size)
MacWrite(written, p) == written \o p

\* blockCipher.Encrypt(dst, src): one block.  It stands for the block
\* cipher the caller injects.
EncryptBytes(h, bs) ==
  AsSeq([j \in 1..bs |-> ((h + 11 * j) * (2 * j + 3) + (h \div 64)) % 256])
Encrypt(src) == EncryptBytes(Mix(Len(src) + 5, src), Len(src))

\* Mutant of NewEAX: a tag of the size of a block is refused.
NewEAXBelowBlockSize(bs, tagsize) ==
  IF ~MacSupports(bs) THEN [err |-> "cmac: cipher block size not supported"]
  ELSE IF tagsize < 1 \/ tagsize >= bs
  THEN [err |-> "tagSize must between 1 and BlockSize() of the given cipher"]
  ELSE [err |-> "", bs |-> bs, size |-> tagsize,
        ctr |-> [i \in 1..bs |-> 0], block |-> [i \in 1..bs |-> 0],
        mac |-> <<>>]

\* NewEAX(c, tagsize), c a block cipher of block size bs.
NewEAX(bs, tagsize) ==
  IF ~MacSupports(bs) THEN [err |-> "cmac: cipher block size not supported"]
  ELSE IF tagsize < 1 \/ tagsize > bs
  THEN [err |-> "tagSize must between 1 and BlockSize() of the given cipher"]
  ELSE [err |-> "", bs |-> bs, size |-> tagsize,
        ctr |-> [i \in 1..bs |-> 0], block |-> [i \in 1..bs |-> 0],
        mac |-> <<>>]

NonceSize(e) == e.bs
Overhead(e) == e.size
\* c.mac.Size() and c.mac.BlockSize(): the block size, for cmac.
MacSize(e) == e.bs
MacBlockSize(e) == e.bs

\* tag := make([]byte, c.mac.BlockSize()); tag[len(tag)-1] = t
DomainTag(e, t) == [i \in 1..MacBlockSize(e) |-> IF i = MacBlockSize(e) THEN t ELSE 0]

\* c.mac.Write(tag); c.mac.Write(data); c.mac.Sum(nil)
EaxMac(e, t, data) ==
  MacSum(MacWrite(MacWrite(e.mac, DomainTag(e, t)), data), MacSize(e))

\* tag[i] ^= authData[i] ^ authNonce[i]
Xor3(tag, authData, authNonce) ==
  AsSeq([i \in 1..Len(tag) |->
           XorByte(tag[i], XorByte(authData[i], authNonce[i]))])

\* The counter register plus one: ctr[k]++ from the last byte, until a byte
\* does not wrap to zero.
RECURSIVE IncBEAt(_, _)
IncBEAt(ctr, k) ==
  IF k = 0 THEN ctr
  ELSE IF ctr[k] = 255 THEN IncBEAt([ctr EXCEPT ![k] = 0], k - 1)
  ELSE [ctr EXCEPT ![k] = ctr[k] + 1]

\* Mutant of IncCtr: the carry out of the last byte is dropped.
IncCtrLastByteOnly(ctr) ==
  [ctr EXCEPT ![Len(ctr)] = (ctr[Len(ctr)] + 1) % 256]

IncCtr(ctr) == IncBEAt(ctr, Len(ctr))

\* n := length & (^(length - bs))
CtrFullLen(length, bs) == BitAnd(length, BitNot(length - bs))

\* The calls of blockCipher.Encrypt in one ctrCrypt over length bytes: one
\* per turn of the loop, and one for the rest if n < length.
CtrEncryptCalls(length, bs) ==
  CeilDiv(CtrFullLen(length, bs), bs)
    + (IF CtrFullLen(length, bs) < length THEN 1 ELSE 0)

\* dst with dst[i:i+len(block)] = src[i:i+len(block)] ^ block
XORChunk(dst, src, block, i) ==
  AsSeq([k \in 1..Len(dst) |->
           IF i < k /\ k <= i + Len(block)
           THEN XorByte(src[k], block[k - i]) ELSE dst[k]])

\* The loop of ctrCrypt from chunk i on.  A dst (of capacity len(dst)) that
\* ends before the chunk does makes dst[i:j] panic, after Encrypt.
RECURSIVE CtrLoop(_, _, _, _, _)
CtrLoop(e, dst, src, n, i) ==
  IF i >= n THEN [panic |-> "", e |-> e, dst |-> dst]
  ELSE IF i + e.bs > Len(dst)
  THEN [panic |-> "panic: slice bounds out of range",
        e |-> [e EXCEPT !.block = Encrypt(e.ctr)], dst |-> dst]
  ELSE CtrLoop([e EXCEPT !.block = Encrypt(e.ctr), !.ctr = IncCtr(e.ctr)],
               XORChunk(dst, src, Encrypt(e.ctr), i), src, n, i + e.bs)

\* What crypto.XOR does with a dst shorter than the bytes to write is not
\* fixed by its callers: the call panics, with the bytes that fit either
\* written or not.
XorShortOutcomes == {"untouched", "prefix"}

\* if n < length { Encrypt; crypto.XOR(dst[n:], src[n:], c.block) }
CtrLast(r, src, n, w) ==
  IF r.panic /= "" \/ n >= Len(src) THEN r
  ELSE IF n > Len(r.dst)
  THEN [panic |-> "panic: slice bounds out of range",
        e |-> [r.e EXCEPT !.block = Encrypt(r.e.ctr)], dst |-> r.dst]
  ELSE IF Len(r.dst) - n < XORCount(From(src, n), r.e.block)
  THEN [panic |-> "panic: crypto.XOR: dst too short",
        e |-> [r.e EXCEPT !.block = Encrypt(r.e.ctr)],
        dst |-> IF w = "prefix"
                THEN Upto(r.dst, n)
                     \o XOR(From(r.dst, n), From(src, n), Encrypt(r.e.ctr))
                ELSE r.dst]
  ELSE [panic |-> "",
        e |-> [r.e EXCEPT !.block = Encrypt(r.e.ctr)],
        dst |-> Upto(r.dst, n)
                \o XOR(From(r.dst, n), From(src, n), Encrypt(r.e.ctr))]

\* c.ctrCrypt(dst, src)
ctrCryptFrom(e, dst, src, n, w) == CtrLast(CtrLoop(e, dst, src, n, 0), src, n, w)
ctrCrypt(e, dst, src, w) == ctrCryptFrom(e, dst, src, CtrFullLen(Len(src), e.bs), w)

Nil == <<"nil">>

\* Mutant of SeedCtr: the register keeps what the call before left in it.
SeedCtrSkipped(e, authNonce) == e

\* copy(c.ctr, authNonce)
SeedCtr(e, authNonce) == [e EXCEPT !.ctr = Upto(authNonce, Len(e.ctr))]

\* Seal, lines 90-100: r is what ctrCrypt did, tag the combined tag.  append
\* writes the tag behind dst[:n] when dst has the room, and to a new array
\* otherwise.
\* Mutant of SealReturn: the tag is appended without being cut to the tag
\* size.
SealReturnWholeTag(r, n, tag, size) ==
  [err |-> "", macUsed |-> TRUE,
   out |-> Upto(r.dst, n) \o tag,
   dst |-> IF Len(r.dst) >= n + Len(tag)
           THEN Upto(r.dst, n) \o tag \o From(r.dst, n + Len(tag))
           ELSE r.dst,
   e |-> [r.e EXCEPT !.mac = <<>>]]

SealReturn(r, n, tag, size) ==
  [err |-> "", macUsed |-> TRUE,
   out |-> Upto(r.dst, n) \o Upto(tag, size),
   dst |-> IF Len(r.dst) >= n + size
           THEN Upto(r.dst, n) \o Upto(tag, size) \o From(r.dst, n + size)
           ELSE r.dst,
   e |-> [r.e EXCEPT !.mac = <<>>]]

SealAuth(r, n, authNonce, authData) ==
  SealReturn(r, n,
             Xor3(EaxMac(r.e, cTag, Upto(r.dst, n)), authData, authNonce),
             r.e.size)

SealEncrypt(e, dst, plaintext, authNonce, authData) ==
  SealAuth(ctrCrypt(SeedCtr(e, authNonce), dst, plaintext, "untouched"),
           Len(plaintext), authNonce, authData)

\* Seal(dst, nonce, plaintext, additionalData)
Seal(e, dst, nonce, plaintext, additionalData) ==
  IF Len(nonce) /= e.bs
  THEN [err |-> "panic: NonceSizeError", macUsed |-> FALSE, out |-> Nil,
        dst |-> dst, e |-> e]
  ELSE IF Len(dst) < Len(plaintext)
  THEN [err |-> "panic: dst buffer to small", macUsed |-> FALSE, out |-> Nil,
        dst |-> dst, e |-> e]
  ELSE SealEncrypt(e, dst, plaintext, EaxMac(e, nTag, nonce),
                   EaxMac(e, hTag, additionalData))

\* Open, lines 148-153: r is what ctrCrypt did.  dst[:n] of a dst (of
\* capacity len(dst)) shorter than n panics.
OpenReturn(r, n) ==
  IF r.panic /= ""
  THEN [err |-> r.panic, macUsed |-> TRUE, out |-> Nil, dst |-> r.dst,
        e |-> [r.e EXCEPT !.mac = <<>>]]
  ELSE IF n > Len(r.dst)
  THEN [err |-> "panic: slice bounds out of range", macUsed |-> TRUE,
        out |-> Nil, dst |-> r.dst, e |-> [r.e EXCEPT !.mac = <<>>]]
  ELSE [err |-> "", macUsed |-> TRUE, out |-> Upto(r.dst, n), dst |-> r.dst,
        e |-> [r.e EXCEPT !.mac = <<>>]]

\* Mutant of OpenRejected: the ciphertext is decrypted before the tags are
\* compared.
OpenRejectedAfterDecrypt(e, dst, body, authNonce, w) ==
  [err |-> "AuthenticationError", macUsed |-> TRUE, out |-> Nil,
   dst |-> ctrCrypt(SeedCtr(e, authNonce), dst, body, w).dst,
   e |-> [ctrCrypt(SeedCtr(e, authNonce), dst, body, w).e EXCEPT !.mac = <<>>]]

\* return nil, crypto.AuthenticationError{} after the comparison
OpenRejected(e, dst, body, authNonce, w) ==
  [err |-> "AuthenticationError", macUsed |-> TRUE, out |-> Nil, dst |-> dst,
   e |-> [e EXCEPT !.mac = <<>>]]

\* Mutant of TagMismatch: only the first byte is compared.
TagMismatchFirstByte(tag, hash, size) == tag[1] /= hash[1]

\* subtle.ConstantTimeCompare(tag[:c.size], hash) != 1
TagMismatch(tag, hash, size) == Upto(tag, size) /= hash

OpenCompare(e, dst, hash, body, authNonce, tag, w) ==
  IF TagMismatch(tag, hash, e.size)
  THEN OpenRejected(e, dst, body, authNonce, w)
  ELSE OpenReturn(ctrCrypt(SeedCtr(e, authNonce), dst, body, w), Len(body))

OpenAuth(e, dst, hash, body, authNonce, authData, w) ==
  OpenCompare(e, dst, hash, body, authNonce,
              Xor3(EaxMac(e, cTag, body), authData, authNonce), w)

\* Mutant of OpenShort: a short ciphertext gets an error of its own.
OpenShortOwnError(e, dst) ==
  [err |-> "CiphertextSizeError", macUsed |-> FALSE, out |-> Nil, dst |-> dst,
   e |-> e]

\* return nil, crypto.AuthenticationError{} for a ciphertext without a tag
OpenShort(e, dst) ==
  [err |-> "AuthenticationError", macUsed |-> FALSE, out |-> Nil, dst |-> dst,
   e |-> e]

\* len(dst) < len(ciphertext)-c.mac.Size()
OpenDstTooSmall(e, dst, ciphertext) == Len(dst) < Len(ciphertext) - MacSize(e)

\* Mutant of Open: the length of the ciphertext is checked before the length
\* of the nonce.
OpenShortFirst(e, dst, nonce, ciphertext, additionalData, w) ==
  IF Len(ciphertext) < e.size THEN OpenShort(e, dst)
  ELSE IF Len(nonce) /= e.bs
  THEN [err |-> "NonceSizeError", macUsed |-> FALSE, out |-> Nil, dst |-> dst,
        e |-> e]
  ELSE IF OpenDstTooSmall(e, dst, ciphertext)
  THEN [err |-> "panic: dst buffer to small", macUsed |-> FALSE, out |-> Nil,
        dst |-> dst, e |-> e]
  ELSE OpenAuth(e, dst, From(ciphertext, Len(ciphertext) - e.size),
                Upto(ciphertext, Len(ciphertext) - e.size),
                EaxMac(e, nTag, nonce), EaxMac(e, hTag, additionalData), w)

\* Open(dst, nonce, ciphertext, additionalData); w is the outcome of a
\* crypto.XOR into a dst that is too short.
Open(e, dst, nonce, ciphertext, additionalData, w) ==
  IF Len(nonce) /= e.bs
  THEN [err |-> "NonceSizeError", macUsed |-> FALSE, out |-> Nil, dst |-> dst,
        e |-> e]
  ELSE IF Len(ciphertext) < e.size THEN OpenShort(e, dst)
  ELSE IF OpenDstTooSmall(e, dst, ciphertext)
  THEN [err |-> "panic: dst buffer to small", macUsed |-> FALSE, out |-> Nil,
        dst |-> dst, e |-> e]
  ELSE OpenAuth(e, dst, From(ciphertext, Len(ciphertext) - e.size),
                Upto(ciphertext, Len(ciphertext) - e.size),
                EaxMac(e, nTag, nonce), EaxMac(e, hTag, additionalData), w)

\* ------------------------------------------------------- ChaCha: the inputs
Nonces12 == {[i \in 1..12 |-> 0], [i \in 1..12 |-> (17 * i) % 256]}
Keys32 == {[i \in 1..32 |-> (i * i + 3) % 256]}
CounterIn == {<<0, 0, 0, 0>>, <<254, 255, 255, 255>>}
CtorRounds == {-2, 0, 7, 20}
RoundsIn == {-3, -2, 0, 7, 8, 20}
ChunkLens == {0, 1, 63, 64, 65, 128, 129}
DstKinds == {"exact", "longer", "inplace", "short"}

\* The src of a call: bytes that vary with the position and the call.
SrcBytes(len, salt) ==
  AsSeq([i \in 1..len |-> (7 * i + 37 * salt + len) % 256])

\* The caller's dst before a call: as long as src, longer, src itself
\* (in place), or one byte too short.
DstBytes(kind, src) ==
  CASE kind = "exact"   -> [i \in 1..Len(src) |-> 238]
    [] kind = "longer"  -> [i \in 1..Len(src) + 2 |-> 238]
    [] kind = "inplace" -> src
    [] kind = "short"   -> [i \in 1..Len(src) - 1 |-> 238]

NoCall == [panic |-> "none"]

VARIABLES
  args,     \* the arguments of the constructor: the nonce, key and rounds
            \* of NewCipher, or the block size and tag size of NewEAX
  c,        \* the Cipher NewCipher returned, or its panic
  calls,    \* calls of Cipher.XORKeyStream so far
  srcAll,   \* the src chunks of the calls that returned, concatenated
  outAll,   \* dst[:len(src)] of the calls that returned, concatenated
  failures, \* calls of Cipher.XORKeyStream that panicked
  last,     \* the last call of Cipher.XORKeyStream
  one,      \* the last call of the one-shot XORKeyStream
  e,        \* the eaxCipher NewEAX returned, or its error
  sealed,   \* the last Seal that returned: its arguments and its result
  res       \* the last call of Seal or Open

vars == <<args, c, calls, failures, srcAll, outAll, last, one, e, sealed, res>>

\* The variables of the EAX cipher while the ChaCha functions run.
NoResult == [op |-> "none", err |-> "none"]
NoEAX == e = [err |-> "none"] /\ sealed = NoCall /\ res = NoResult

InitChaCha ==
  /\ \E nonce \in Nonces12, key \in Keys32, rounds \in CtorRounds :
       /\ args = [nonce |-> nonce, key |-> key, rounds |-> rounds]
       /\ c = NewCipher(nonce, key, rounds)
  /\ calls = 0
  /\ failures = 0
  /\ srcAll = <<>>
  /\ outAll = <<>>
  /\ last = NoCall
  /\ one = NoCall
  /\ NoEAX

\* One call c.XORKeyStream(dst, src), r what it did.
CipherCallDone(src, dst, r) ==
  /\ c' = r.c
  /\ last' = [panic |-> r.panic, src |-> src,
              dstBefore |-> dst, dstAfter |-> r.dst]
  /\ srcAll' = IF r.panic = "" THEN srcAll \o src ELSE srcAll
  /\ outAll' = IF r.panic = "" THEN outAll \o Upto(r.dst, Len(src)) ELSE outAll
  /\ failures' = IF r.panic = "" THEN failures ELSE failures + 1

CipherCallWith(src, dst) ==
  CipherCallDone(src, dst, CipherXORKeyStream(c, dst, src))

CipherCall ==
  /\ c.panic = ""
  /\ calls < MaxCalls
  /\ \E len \in ChunkLens, kind \in DstKinds :
       /\ kind = "short" => len > 0
       /\ CipherCallWith(SrcBytes(len, calls), DstBytes(kind, SrcBytes(len, calls)))
  /\ calls' = calls + 1
  /\ UNCHANGED <<args, one, e, sealed, res>>

\* One call of the one-shot XORKeyStream on the inputs Init drew.
OneShotDone(in, r) ==
  one' = [in EXCEPT !.panic = r.panic, !.dstAfter = r.dst]

OneShotCall ==
  /\ one.panic = "pending"
  /\ OneShotDone(one, OneShotXORKeyStream(one.dstBefore, one.src, args.nonce,
                                          args.key, one.counter, one.rounds))
  /\ UNCHANGED <<args, c, calls, failures, srcAll, outAll, last, e, sealed, res>>

\* The one-shot function keeps no state: a run of it is one call, on inputs
\* drawn at the start.
OneShotInput(len, kind, counter, rounds) ==
  [panic |-> "pending", src |-> SrcBytes(len, 0),
   dstBefore |-> DstBytes(kind, SrcBytes(len, 0)),
   dstAfter |-> DstBytes(kind, SrcBytes(len, 0)),
   counter |-> counter, rounds |-> rounds]

InitOneShot ==
  /\ \E nonce \in Nonces12, key \in Keys32, rounds \in CtorRounds :
       /\ args = [nonce |-> nonce, key |-> key, rounds |-> rounds]
       /\ c = NewCipher(nonce, key, rounds)
  /\ calls = 0
  /\ failures = 0
  /\ srcAll = <<>>
  /\ outAll = <<>>
  /\ last = NoCall
  /\ \E len \in ChunkLens, kind \in DstKinds, counter \in CounterIn,
        rounds \in RoundsIn :
       /\ kind = "short" => len > 0
       /\ one = OneShotInput(len, kind, counter, rounds)
  /\ NoEAX

Next == CipherCall
Spec == InitChaCha /\ [][Next]_vars

NextOneShot == OneShotCall
SpecOneShot == InitOneShot /\ [][NextOneShot]_vars

\* ---------------------------------------------------------- EAX: the inputs
\* Full blocks of the longest plaintext.
MaxBlocks == 3

\* The block sizes of the block ciphers given to NewEAX, and the tag sizes.
EaxBlockSizes == {12, 16}
TagSizesIn(bs) == {0, 1, bs, bs + 1}

GoodNonce(bs) == [i \in 1..bs |-> (5 * i + 1) % 256]
Nonce12 == [i \in 1..12 |-> (3 * i) % 256]
NoAD == <<>>
SomeAD == <<1, 2, 3>>

PtLens(bs) == {k * bs + d : k \in 0..MaxBlocks, d \in {0, 1}}
PtBytes(len) == AsSeq([i \in 1..len |-> (11 * i + 3) % 256])

\* The caller's dst before Seal: as long as the plaintext, the plaintext
\* itself (in place), longer, or one byte too short.
SealDst(kind, plaintext) ==
  CASE kind = "fresh"   -> [i \in 1..Len(plaintext) |-> 238]
    [] kind = "inplace" -> plaintext
    [] kind = "longer"  -> [i \in 1..Len(plaintext) + 20 |-> 238]
    [] kind = "short"   -> [i \in 1..Len(plaintext) - 1 |-> 238]

\* The arguments of the Seal calls: <<nonce, length, associated data, dst>>.
SealInputs(bs) ==
  {<<GoodNonce(bs), len, NoAD, kind>> :
     len \in PtLens(bs), kind \in {"fresh", "inplace"}}
  \cup {<<GoodNonce(bs), len, NoAD, kind>> :
          len \in {1, 2 * bs}, kind \in {"longer", "short"}}
  \cup {<<GoodNonce(bs), len, SomeAD, "fresh">> : len \in {0, bs + 1}}
  \cup {<<Nonce12, len, NoAD, "fresh">> : len \in {0, bs + 1}}

\* s with one bit of its byte at index pos (from 1) flipped.
FlipBit(s, pos, bit) == [s EXCEPT ![pos] = XorByte(s[pos], Pow2(bit))]

\* The ciphertexts given to Open: the last sealed one, copies of it with one
\* bit flipped in the body or in the tag, a part of it shorter than the tag,
\* and bytes that no Seal made.
Ciphertexts(size) ==
  IF sealed = NoCall
  THEN {[i \in 1..size + 2 |-> 170], [i \in 1..size - 1 |-> 170]}
  ELSE {sealed.out, Upto(sealed.out, size - 1),
        FlipBit(sealed.out, Len(sealed.out), 7),
        FlipBit(sealed.out, Len(sealed.out) - size + 1, 0)}
       \cup (IF Len(sealed.out) > size
             THEN {FlipBit(sealed.out, 1, 0),
                   FlipBit(sealed.out, Len(sealed.out) - size, 7)}
             ELSE {})

\* The caller's dst before Open: as long as the plaintext, the ciphertext
\* itself (in place), or one byte too short.
OpenDst(kind, ciphertext, size) ==
  CASE kind = "fresh"   -> [i \in 1..Len(ciphertext) - size |-> 119]
    [] kind = "inplace" -> ciphertext
    [] kind = "short"   -> [i \in 1..Len(ciphertext) - size - 1 |-> 119]

\* The arguments of the Open calls: <<nonce, ciphertext, associated data,
\* dst, outcome of a crypto.XOR into a short dst>>.
OpenInputs(bs, size) ==
  {<<GoodNonce(bs), ct, NoAD, kind, "untouched">> :
     ct \in {x \in Ciphertexts(size) : Len(x) >= size},
     kind \in {"fresh", "inplace"}}
  \cup {<<GoodNonce(bs), ct, NoAD, "short", w>> :
          ct \in {x \in Ciphertexts(size) : Len(x) > size},
          w \in XorShortOutcomes}
  \cup {<<GoodNonce(bs), ct, NoAD, "inplace", "untouched">> :
          ct \in {x \in Ciphertexts(size) : Len(x) < size}}
  \cup {<<n, ct, ad, "inplace", "untouched">> :
          n \in {GoodNonce(bs), Nonce12}, ad \in {NoAD, SomeAD},
          ct \in Ciphertexts(size) \cap (IF sealed = NoCall THEN {} ELSE {sealed.out})}
  \cup {<<Nonce12, ct, NoAD, "inplace", "untouched">> :
          ct \in {x \in Ciphertexts(size) : Len(x) < size}}

\* The variables of the ChaCha functions while the EAX cipher runs.
NoChaCha ==
  /\ c = [panic |-> "none"]
  /\ calls = 0 /\ failures = 0 /\ srcAll = <<>> /\ outAll = <<>>
  /\ last = NoCall /\ one = NoCall

InitEAX ==
  /\ NoChaCha
  /\ \E bs \in EaxBlockSizes : \E tagsize \in TagSizesIn(bs) :
       /\ args = [bs |-> bs, tagsize |-> tagsize]
       /\ e = NewEAX(bs, tagsize)
  /\ sealed = NoCall
  /\ res = NoResult

\* One call c.Seal(dst, nonce, plaintext, additionalData), r what it did.
SealDone(nonce, plaintext, ad, dst, r) ==
  /\ e' = r.e
  /\ res' = [op |-> "Seal", err |-> r.err, macUsed |-> r.macUsed,
             out |-> r.out, nonce |-> nonce, ad |-> ad, in |-> plaintext,
             dstBefore |-> dst, dstAfter |-> r.dst]
  /\ sealed' = IF r.err = ""
               THEN [nonce |-> nonce, ad |-> ad, plaintext |-> plaintext,
                     out |-> r.out]
               ELSE sealed

SealWith(nonce, plaintext, ad, dst) ==
  SealDone(nonce, plaintext, ad, dst, Seal(e, dst, nonce, plaintext, ad))

SealCall ==
  /\ e.err = ""
  /\ \E in \in SealInputs(e.bs) :
       SealWith(in[1], PtBytes(in[2]), in[3], SealDst(in[4], PtBytes(in[2])))
  /\ UNCHANGED <<args, c, calls, failures, srcAll, outAll, last, one>>

\* One call c.Open(dst, nonce, ciphertext, additionalData), r what it did.
OpenDone(nonce, ciphertext, ad, dst, r) ==
  /\ e' = r.e
  /\ res' = [op |-> "Open", err |-> r.err, macUsed |-> r.macUsed,
             out |-> r.out, nonce |-> nonce, ad |-> ad, in |-> ciphertext,
             dstBefore |-> dst, dstAfter |-> r.dst]
  /\ sealed' = sealed

OpenWith(nonce, ciphertext, ad, dst, w) ==
  OpenDone(nonce, ciphertext, ad, dst, Open(e, dst, nonce, ciphertext, ad, w))

OpenCall ==
  /\ e.err = ""
  /\ \E in \in OpenInputs(e.bs, e.size) :
       OpenWith(in[1], in[2], in[3], OpenDst(in[4], in[2], e.size), in[5])
  /\ UNCHANGED <<args, c, calls, failures, srcAll, outAll, last, one>>

NextEAX == SealCall \/ OpenCall
SpecEAX == InitEAX /\ [][NextEAX]_vars

\* ------------------------------------------------- ctrCrypt on its own
\* The values of the counter register ctrCrypt is entered with.  Seal and
\* Open seed it with a MAC value, which can be any block: zeros, a last byte
\* about to wrap, a run of 0xFF bytes behind a byte that stops the carry,
\* and all 0xFF.
CtrSeeds(bs) ==
  {[i \in 1..bs |-> 0],
   [i \in 1..bs |-> IF i = bs THEN 254 ELSE 0],
   [i \in 1..bs |-> IF i = bs THEN 255 ELSE 7],
   [i \in 1..bs |-> IF i > bs - 3 THEN 255 ELSE IF i = bs - 3 THEN 41 ELSE 0],
   [i \in 1..bs |-> IF i = 1 THEN 0 ELSE 255],
   [i \in 1..bs |-> IF i = bs THEN 254 ELSE 255],
   [i \in 1..bs |-> 255]}

CtrCallInput(seed, src, dst) ==
  [op |-> "pending", err |-> "none", seed |-> seed, in |-> src,
   dstBefore |-> dst, dstAfter |-> dst]

InitCtr ==
  /\ NoChaCha
  /\ \E bs \in {b \in EaxBlockSizes : MacSupports(b)} :
       /\ args = [bs |-> bs, tagsize |-> bs]
       /\ \E seed \in CtrSeeds(bs), len \in PtLens(bs),
             kind \in {"fresh", "inplace"} :
            /\ e = [NewEAX(bs, bs) EXCEPT !.ctr = seed]
            /\ res = CtrCallInput(seed, PtBytes(len), SealDst(kind, PtBytes(len)))
  /\ sealed = NoCall

\* One call c.ctrCrypt(dst, src) on the inputs Init drew, r what it did.
CtrCryptDone(r) ==
  /\ e' = r.e
  /\ res' = [res EXCEPT !.op = "ctrCrypt", !.err = r.panic, !.dstAfter = r.dst]

CtrCryptCall ==
  /\ res.op = "pending"
  /\ CtrCryptDone(ctrCrypt(e, res.dstBefore, res.in, "untouched"))
  /\ UNCHANGED <<args, c, calls, failures, srcAll, outAll, last, one, sealed>>

NextCtr == CtrCryptCall
SpecCtr == InitCtr /\ [][NextCtr]_vars

\* ----------------------------------------------------------- ChaCha: claims
ZeroBytes(n) == [i \in 1..n |-> 0]

\* The one-shot function over everything the cipher was given so far.
OneShotOverAll ==
  OneShotXORKeyStream(ZeroBytes(Len(srcAll)), srcAll, args.nonce, args.key,
                      <<0, 0, 0, 0>>, args.rounds)

\* C1: after any sequence of Cipher.XORKeyStream calls, with chunks of any
\* of the lengths (0, below 64, 64, ending on a block boundary), the outputs
\* concatenated equal one call of the one-shot XORKeyStream with counter 0
\* and the same nonce, key and rounds over the src chunks concatenated.
OutIsOneShot(r) == r.panic = "" /\ outAll = r.dst

C1_ChunkedEqualsOneShot == c.panic = "" => OutIsOneShot(OneShotOverAll)

\* Three calls, the first two ending on the 64-byte boundary (63 then 1, or
\* 64 and an empty one), the third crossing the next one.
C1_Witness ==
  /\ calls = 3 /\ failures = 0
  /\ Len(last.src) = 65 /\ Len(srcAll) = 129 /\ c.off = 1

\* C9: a call of Cipher.XORKeyStream with len(dst) < len(src) panics without
\* writing dst and without changing the state words, the leftover block or
\* the offset, so that the outputs of a run with failed calls are those of
\* the run without them.
C9_FailedCallChangesNothing ==
  /\ [][(calls' = calls + 1 /\ Len(last'.dstBefore) < Len(last'.src))
          => /\ last'.panic = "dst buffer is to small"
             /\ last'.dstAfter = last'.dstBefore
             /\ c' = c]_vars
  /\ [](failures > 0 => outAll = OneShotOverAll.dst)

\* A call failed while a leftover block was partly used, and a later call
\* went on in that block and beyond.
C9_Witness ==
  /\ failures = 1 /\ calls = 3 /\ last.panic = ""
  /\ Len(srcAll) = 66 /\ Len(last.src) = 65

\* C10: the one-shot XORKeyStream panics, with dst as it was, whenever
\* len(dst) < len(src) or rounds is not a positive even number, and
\* NewCipher panics for such rounds: no Cipher has an invalid round count.
C10_InvalidParametersFail ==
  /\ (one.panic /= "pending"
        /\ (Len(one.dstBefore) < Len(one.src)
              \/ one.rounds <= 0 \/ one.rounds % 2 = 1))
       => (one.panic /= "" /\ one.dstAfter = one.dstBefore)
  /\ (args.rounds <= 0 \/ args.rounds % 2 = 1) => c.panic /= ""
  /\ c.panic = "" => (c.rounds > 0 /\ c.rounds % 2 = 0)

\* The one-shot function was called with enough room in dst and rounds = 0,
\* and NewCipher with an invalid round count.
C10_Witness ==
  /\ one.panic = "rounds must be a multiple of 2"
  /\ one.rounds = 0 /\ Len(one.src) = 129 /\ Len(one.dstBefore) = 129
  /\ args.rounds = 0 /\ c.panic /= ""

\* The state words of the one-shot function when it returns: after the full
\* blocks, and after the block generated for a partial chunk.
OneShotStateAfter(b, length, n, rounds) ==
  IF length - n > 0 THEN Core(b.state, rounds).state ELSE b.state

OneShotState(dst, src, nonce, key, counter, rounds) ==
  OneShotStateAfter(
    OneShotFullBlocks(dst, src, InitState(nonce, key, counter), rounds),
    Len(src), OneShotFullLen(Len(src)), rounds)

\* The little-endian 32-bit counter plus k, mod 2^32, computed on its two
\* 16-bit halves.
HalvesLE(lo, hi) == <<lo % 256, lo \div 256, hi % 256, hi \div 256>>
AddLE32(counter, k) ==
  HalvesLE((counter[1] + 256 * counter[2] + k) % 65536,
           (counter[3] + 256 * counter[4]
              + (counter[1] + 256 * counter[2] + k) \div 65536) % 65536)

\* C11: after N bytes the block counter has advanced by ceil(N/64) mod 2^32
\* and nothing else of the state has changed: for the cipher after any calls
\* that consumed N bytes in total, and for one one-shot call over the bytes
\* of a chunk from any start counter; the next block the cipher generates is the first block
\* of a one-shot call started at that counter.
C11_CounterAdvancesPerBlock ==
  c.panic = "" =>
    /\ c.state = InitState(args.nonce, args.key,
                           AddLE32(<<0, 0, 0, 0>>, CeilDiv(Len(srcAll), BlockLen)))
    /\ last /= NoCall =>
         \A counter \in CounterIn :
           OneShotState(ZeroBytes(Len(last.src)), last.src, args.nonce,
                        args.key, counter, args.rounds)
             = InitState(args.nonce, args.key,
                         AddLE32(counter, CeilDiv(Len(last.src), BlockLen)))
    /\ Core(c.state, c.rounds).block
         = OneShotXORKeyStream(
             ZeroBytes(BlockLen), ZeroBytes(BlockLen), args.nonce, args.key,
             AddLE32(<<0, 0, 0, 0>>, CeilDiv(Len(srcAll), BlockLen)),
             args.rounds).dst

\* 64 bytes, then 1 byte: the counter is 2.
C11_Witness ==
  /\ c.panic = "" /\ calls = 2 /\ failures = 0
  /\ Len(srcAll) = 65 /\ Len(last.src) = 1
  /\ CounterOf(c.state) = <<2, 0, 0, 0>>

\* C17 as stated: in every state reachable from NewCipher the leftover
\* offset is in 0..63 and is the number of bytes consumed so far modulo 64.
C17_OffsetBelowBlockLen ==
  c.panic = "" => (c.off \in 0..(BlockLen - 1)
                   /\ c.off = Len(srcAll) % BlockLen)

\* C17 as amended: the offset is in 0..64 and congruent modulo 64 to the
\* number of bytes consumed so far; it is 64, all of the leftover block
\* consumed, only when that number is a positive multiple of 64.
C17_OffsetWithinBlock ==
  c.panic = "" =>
    /\ c.off \in 0..BlockLen
    /\ c.off % BlockLen = Len(srcAll) % BlockLen
    /\ c.off = BlockLen => Len(srcAll) > 0

\* 63 bytes, then the last byte of the leftover block: the offset is 64.
C17_Witness ==
  /\ c.panic = "" /\ calls = 2 /\ failures = 0
  /\ Len(srcAll) = BlockLen /\ Len(last.src) = 1 /\ c.off = BlockLen

\* -------------------------------------------------------------- EAX: claims
\* The three MACs and the tag as the EAX definition has them, over a MAC in
\* its reset state.
RefPrefix(t) == [i \in 1..e.bs |-> IF i = e.bs THEN t ELSE 0]
RefMac(t, data) == MacSum(RefPrefix(t) \o data, e.bs)
RefTag(nonce, ad, body) ==
  Upto(Xor3(RefMac(2, body), RefMac(1, ad), RefMac(0, nonce)), e.size)

\* The register r plus k, as a big-endian integer.
RECURSIVE AddCtr(_, _)
AddCtr(r, k) == IF k = 0 THEN r ELSE AddCtr(IncCtr(r), k - 1)

\* Byte i (from 1) of the counter-mode keystream that starts at authNonce.
RefKeystreamByte(authNonce, i) ==
  Encrypt(AddCtr(authNonce, (i - 1) \div e.bs))[((i - 1) % e.bs) + 1]

BodyOf(ciphertext) == Upto(ciphertext, Len(ciphertext) - e.size)
TagOf(ciphertext) == From(ciphertext, Len(ciphertext) - e.size)

\* The last call is an Open that passed the checks at its entry.
OpenEntered(r, reg) ==
  /\ r.op = "Open"
  /\ Len(r.nonce) = reg.bs
  /\ Len(r.in) >= reg.size
  /\ Len(r.dstBefore) >= Len(r.in) - reg.bs

\* C2: Open of what Seal returned, with the same nonce and associated data
\* and a dst that is long enough, succeeds and returns the plaintext, for
\* every plaintext length and every dst, aliased or not.
C2_RoundTrip ==
  (/\ res.op = "Open" /\ sealed /= NoCall
   /\ res.in = sealed.out /\ res.nonce = sealed.nonce /\ res.ad = sealed.ad
   /\ Len(res.dstBefore) >= Len(sealed.plaintext))
    => (res.err = "" /\ res.out = sealed.plaintext)

\* C3: after Seal, every byte i of dst[:n] is plaintext[i] XOR byte i mod bs
\* of Encrypt(authNonce + i div bs).
C3_SealBodyIsCounterMode ==
  (res.op = "Seal" /\ res.err = "")
    => \A i \in 1..Len(res.in) :
         res.dstAfter[i]
           = XorByte(res.in[i], RefKeystreamByte(RefMac(0, res.nonce), i))

\* C4: an Open (that passed the checks at its entry) whose recomputed tag
\* differs from the received one returns AuthenticationError and no buffer,
\* leaves dst as it was and leaves the counter register alone.
C4_NoDecryptionBeforeTagMatch ==
  [][(/\ OpenEntered(res', e')
      /\ res' /= res
      /\ RefTag(res'.nonce, res'.ad, BodyOf(res'.in)) /= TagOf(res'.in))
       => (/\ res'.err = "AuthenticationError"
           /\ res'.out = Nil
           /\ res'.dstAfter = res'.dstBefore
           /\ e'.ctr = e.ctr)]_vars

\* An Open of a tampered ciphertext of more than two blocks was rejected.
C4_Witness ==
  /\ res.op = "Open" /\ res.err = "AuthenticationError" /\ res.macUsed
  /\ Len(res.in) > 2 * e.bs + e.size
  /\ Len(res.dstBefore) >= Len(res.in) - e.size

\* a and b differ in one bit of the byte at index i.
OneBitAt(a, b, i) ==
  /\ Len(a) = Len(b)
  /\ XorByte(a[i], b[i]) \in {1, 2, 4, 8, 16, 32, 64, 128}
  /\ \A k \in 1..Len(a) : k /= i => a[k] = b[k]

\* C5: Open of a copy of Seal's output that differs from it in one bit, with
\* the same nonce and associated data, fails with AuthenticationError: always
\* when the bit is in the tag, and when it is in the body unless the MACs of
\* the two bodies collide in the bytes of the tag.
C5_TamperDetected ==
  (OpenEntered(res, e) /\ sealed /= NoCall
   /\ res.nonce = sealed.nonce /\ res.ad = sealed.ad)
    => \A i \in 1..Len(sealed.out) :
         (/\ OneBitAt(res.in, sealed.out, i)
          /\ (i > Len(sealed.out) - e.size
              \/ Upto(RefMac(2, BodyOf(res.in)), e.size)
                   /= Upto(RefMac(2, BodyOf(sealed.out)), e.size)))
           => res.err = "AuthenticationError"

\* A flipped bit in the last byte of a full-size tag, and one in the body,
\* were rejected.
C5_Witness ==
  /\ OpenEntered(res, e) /\ sealed /= NoCall
  /\ res.nonce = sealed.nonce /\ res.ad = sealed.ad
  /\ res.err = "AuthenticationError"
  /\ e.size = e.bs /\ Len(sealed.out) > e.size
  /\ OneBitAt(res.in, sealed.out, Len(sealed.out))

\* C6: with a nonce of the right length, Open of a ciphertext shorter than the
\* tag returns AuthenticationError, the very error of a tag mismatch, and
\* does not write dst.
C6_ShortCiphertextIsAuthFailure ==
  /\ (res.op = "Open" /\ Len(res.nonce) = e.bs /\ Len(res.in) < e.size)
       => (/\ res.err = "AuthenticationError" /\ res.out = Nil
           /\ res.dstAfter = res.dstBefore)
  /\ (OpenEntered(res, e)
        /\ RefTag(res.nonce, res.ad, BodyOf(res.in)) /= TagOf(res.in))
       => res.err = "AuthenticationError"

\* Open was given the first size - 1 > 0 bytes of a sealed ciphertext.
C6_Witness ==
  /\ res.op = "Open" /\ Len(res.nonce) = e.bs
  /\ Len(res.in) < e.size /\ Len(res.in) > 0
  /\ res.err = "AuthenticationError"

\* C7: Seal returns len(plaintext) + Overhead() bytes: dst[:n] and then the
\* first tagSize bytes of authNonce XOR authData XOR authCiphertext, the MACs
\* taken from a reset MAC over the zero prefix ending in 0, 1, 2 and then
\* the nonce, the associated data, dst[:n]; Open accepts exactly the
\* ciphertexts whose tag is that value over the received body.
C7_TagIsXorOfThreeMacs ==
  /\ e.err = "" => e.mac = <<>>
  /\ (res.op = "Seal" /\ res.err = "")
       => (/\ Len(res.out) = Len(res.in) + Overhead(e)
           /\ Upto(res.out, Len(res.in)) = Upto(res.dstAfter, Len(res.in))
           /\ From(res.out, Len(res.in))
                = RefTag(res.nonce, res.ad, Upto(res.dstAfter, Len(res.in))))
  /\ OpenEntered(res, e)
       => (res.err /= "AuthenticationError"
             <=> RefTag(res.nonce, res.ad, BodyOf(res.in)) = TagOf(res.in))

\* A Seal with associated data and a plaintext of a block and a byte.
C7_Witness ==
  /\ res.op = "Seal" /\ res.err = ""
  /\ res.ad = SomeAD /\ Len(res.in) = e.bs + 1 /\ e.size = 1

\* C8: an Open with a valid nonce, len(ciphertext) >= tagSize and
\* len(dst) < len(ciphertext) - tagSize fails at its entry as an invalid
\* parameter, before any MAC computation, register update or write to dst.
C8_OpenRejectsSmallDst ==
  [][(/\ res'.op = "Open" /\ res' /= res
      /\ Len(res'.nonce) = e'.bs
      /\ Len(res'.in) >= e'.size
      /\ Len(res'.dstBefore) < Len(res'.in) - e'.size)
       => (/\ res'.err = "panic: dst buffer to small"
           /\ ~res'.macUsed
           /\ res'.dstAfter = res'.dstBefore
           /\ e' = e)]_vars

\* C12: NewEAX returns an AEAD exactly when the MAC accepts the block cipher
\* and 1 <= tagsize <= BlockSize(); an error comes with no AEAD; on success
\* NonceSize() is the block size and Overhead() the tag size, also after
\* calls of Seal and Open.
C12_NewEAXTagSizeBounds ==
  /\ e.err = "" <=> (/\ MacSupports(args.bs)
                      /\ 1 <= args.tagsize /\ args.tagsize <= args.bs)
  /\ e.err = "" => (NonceSize(e) = args.bs /\ Overhead(e) = args.tagsize)
  /\ e.err /= "" => DOMAIN e = {"err"}
  /\ (args.tagsize \in {1, args.bs} /\ MacSupports(args.bs)) => e.err = ""
  /\ args.tagsize \in {0, args.bs + 1} => e.err /= ""

\* NewEAX took a tag of the size of a block, and a Seal returned that many
\* bytes more than it was given.
C12_Witness ==
  /\ e.err = "" /\ args.tagsize = args.bs
  /\ res.op = "Seal" /\ res.err = ""
  /\ Len(res.out) = Len(res.in) + args.bs

\* The last call is a Seal of an empty plaintext with no associated data and
\* a nonce of n bytes, under a cipher of 16-byte blocks.
EmptySeal(n) ==
  /\ res.op = "Seal" /\ e.bs = 16
  /\ res.in = <<>> /\ res.ad = <<>> /\ Len(res.nonce) = n

\* The last call is an Open of what a Seal of an empty plaintext with no
\* associated data and a nonce of n bytes returned, with that nonce.
EmptyOpen(n) ==
  /\ res.op = "Open" /\ e.bs = 16 /\ sealed /= NoCall
  /\ sealed.plaintext = <<>> /\ sealed.ad = <<>> /\ Len(sealed.nonce) = n
  /\ res.in = sealed.out /\ res.nonce = sealed.nonce /\ res.ad = <<>>

\* C13 as stated: under a cipher of 128-bit blocks, Seal of an empty
\* plaintext with no associated data and a 12-byte nonce returns a tag of
\* tagSize bytes and nothing before it, and Open of that returns the empty
\* plaintext.
C13_EmptySealNonce12 ==
  /\ EmptySeal(12) => (res.err = "" /\ Len(res.out) = e.size)
  /\ EmptyOpen(12) => (res.err = "" /\ res.out = <<>>)

\* C13 as amended: the same with a nonce of the block size, 16 bytes; with
\* the 12-byte nonce Seal panics with the nonce size error and returns
\* nothing.
C13_EmptySealBlockSizeNonce ==
  /\ EmptySeal(16) => (res.err = "" /\ Len(res.out) = e.size)
  /\ EmptyOpen(16) => (res.err = "" /\ res.out = <<>>)
  /\ EmptySeal(12) => (res.err = "panic: NonceSizeError" /\ res.out = Nil)

\* An Open returned the empty plaintext of a Seal with a one-byte tag.
C13_Witness ==
  /\ EmptyOpen(16) /\ res.err = "" /\ res.out = <<>>
  /\ e.size = 1 /\ Len(res.in) = 1

\* C14: a Seal or an Open with a nonce that is not as long as a block fails
\* with the nonce size error, which is not AuthenticationError, and returns
\* no buffer; the MAC is not written, the registers and dst stay as they
\* were; Open does so for a ciphertext shorter than the tag as well.
C14_NonceSizeChecked ==
  [][(/\ res' /= res
      /\ res'.op \in {"Seal", "Open"}
      /\ Len(res'.nonce) /= e'.bs)
       => (/\ res'.err = (IF res'.op = "Seal" THEN "panic: NonceSizeError"
                                                ELSE "NonceSizeError")
           /\ res'.err /= "AuthenticationError"
           /\ res'.out = Nil
           /\ ~res'.macUsed
           /\ res'.dstAfter = res'.dstBefore
           /\ e' = e)]_vars

\* An Open with a 12-byte nonce and a ciphertext shorter than the tag got
\* the nonce size error.
C14_Witness ==
  /\ res.op = "Open" /\ res.err = "NonceSizeError"
  /\ Len(res.nonce) = 12 /\ e.bs = 16
  /\ Len(res.in) < e.size /\ Len(res.in) > 0

\* The last call ran ctrCrypt to its end over L bytes with the register
\* seeded from the MAC of nonce: a Seal or an Open that returned.
CtrRanOver(L, nonce) ==
  /\ CtrEncryptCalls(L, e.bs) = CeilDiv(L, e.bs)
  /\ e.ctr = AddCtr(RefMac(0, nonce), L \div e.bs)
  /\ L > 0 => e.block = Encrypt(AddCtr(RefMac(0, nonce), CeilDiv(L, e.bs) - 1))

\* C15: ctrCrypt over L bytes calls the block cipher ceil(L/bs) times: the
\* register is incremented once per full chunk, L div bs times, and the
\* keystream register holds the block of the last of the ceil(L/bs) register
\* values; at L = k*bs there is no block beyond the k-th.
C15_OneEncryptPerBlock ==
  /\ (res.op = "Seal" /\ res.err = "") => CtrRanOver(Len(res.in), res.nonce)
  /\ (res.op = "Open" /\ res.err = "")
       => CtrRanOver(Len(res.in) - e.size, res.nonce)

\* The register r plus k as a big-endian integer mod 2^(8*Len(r)), by
\* addition with carry from the last byte.
RECURSIVE AddBEFrom(_, _, _)
AddBEFrom(r, i, carry) ==
  IF i = 0 THEN r
  ELSE AddBEFrom([r EXCEPT ![i] = (r[i] + carry) % 256], i - 1,
                 (r[i] + carry) \div 256)

AddBE(r, k) == AddBEFrom(r, Len(r), k)

\* The turns of the loop of the last ctrCrypt.
CtrTurns == CeilDiv(CtrFullLen(Len(res.in), e.bs), e.bs)

\* C16: every turn of the loop of ctrCrypt adds 1 to the counter register as
\* a big-endian integer of the width of the register, mod 2^(8*bs), the
\* carry running from the last byte leftward and all 0xFF becoming all zero:
\* turn t encrypts the register it started with plus t, the register ends
\* as that plus the number of turns, and no two turns see the same value.
C16_CounterIncrementsBigEndian ==
  (res.op = "ctrCrypt" /\ res.err = "") =>
    /\ e.ctr = AddBE(res.seed, CtrTurns)
    /\ \A i \in 1..(CtrTurns * e.bs) :
         res.dstAfter[i]
           = XorByte(res.in[i],
                     Encrypt(AddBE(res.seed, (i - 1) \div e.bs))[((i - 1) % e.bs) + 1])
    /\ \A j \in 0..CtrTurns, k \in 0..CtrTurns :
         j /= k => AddBE(res.seed, j) /= AddBE(res.seed, k)

\* From all 0xFF the register went to zero and on to 1, in two turns.
C16_Witness ==
  /\ res.op = "ctrCrypt" /\ res.err = ""
  /\ res.seed = [i \in 1..e.bs |-> 255]
  /\ Len(res.in) = 2 * e.bs
  /\ e.ctr = [i \in 1..e.bs |-> IF i = e.bs THEN 1 ELSE 0]

\* The call recorded in r returned, or failed, as f did.
SameResult(r, f) ==
  [err |-> r.err, macUsed |-> r.macUsed, out |-> r.out, dst |-> r.dstAfter,
   e |-> <<>>]
    = [f EXCEPT !.e = <<>>]

\* C18: after any calls of Seal and Open on an instance, returned, rejected
\* or panicked, the MAC is in its reset state, and a Seal or an Open gives
\* what the same call gives on an instance fresh from NewEAX: the same
\* error or panic, the same returned bytes and the same dst.
C18_NoStateBetweenCalls ==
  /\ [](e.err = "" => e.mac = <<>>)
  /\ [][(res' /= res /\ res'.op = "Seal")
          => SameResult(res', Seal(NewEAX(args.bs, args.tagsize), res'.dstBefore,
                                   res'.nonce, res'.in, res'.ad))]_vars
  /\ [][(res' /= res /\ res'.op = "Open")
          => \E w \in XorShortOutcomes :
               SameResult(res', Open(NewEAX(args.bs, args.tagsize),
                                     res'.dstBefore, res'.nonce, res'.in,
                                     res'.ad, w))]_vars

\* An Open decrypted more than a block of what an earlier Seal on the same
\* instance returned, and left the register advanced.
C18_Witness ==
  /\ res.op = "Open" /\ res.err = "" /\ sealed /= NoCall
  /\ res.in = sealed.out /\ Len(res.in) > e.size + e.bs
  /\ e.ctr /= [i \in 1..e.bs |-> 0]

====
